---------------------------- MODULE Spec2Model ----------------------------
(***************************************************************************)
(* Model of bogoDB/scripts/visualize_probabilities.py: one run of the      *)
(* script (the __main__ block calling visualize_exponential_distribution   *)
(* with its default arguments), as a line-positioned state machine.        *)
(*                                                                         *)
(* Number representation.  Real numbers are kept exact as integer          *)
(* numerators over a denominator that is fixed for the run:                *)
(*   - a standard exponential variate is  e / Denom;                       *)
(*   - a sample is variate * scale = e / (Denom * lambda_param);           *)
(*     exp_values holds the numerators e;                                  *)
(*   - a probability is count / num_samples; probabilities holds the       *)
(*     numerators (the counts), max_prob and cum_prob_* likewise;          *)
(*   - an expected count is count * num_queries / num_samples;             *)
(*     expected_counts, binned_counts and the report's "expected" hold     *)
(*     the numerators count * num_queries.                                 *)
(* Node ids are 0-based as in the code; TLA+ sequences are 1-based, so     *)
(* probabilities[i + 1] is the probability of node i.                      *)
(***************************************************************************)
EXTENDS Integers, Sequences, FiniteSets

VARIABLES
    num_nodes,        \* NUM_NODES       (scripts.constants, default argument)
    num_queries,      \* NUM_QUERIES
    lambda_param,     \* LAMBDA_PARAM
    seed,             \* RANDOM_SEED
    num_samples,      \* num_samples argument
    pc,               \* the line group about to execute, "done" or "aborted"
    error,            \* the exception that ended the run and where it was raised
    rng,              \* state of numpy's global random source
    mt,               \* the generator as a function: the draws made so far, by key
    exp_values,       \* line 37
    scaled_values,    \* line 38
    node_counts,      \* line 41: Counter, a function from the labels present
    probabilities,    \* line 45
    figures,          \* number of figures created by plt.subplots
    max_prob_node,    \* line 77
    max_prob,         \* line 78
    cum_prob_10,      \* line 81
    cum_prob_50,      \* line 82
    cum_prob_100,     \* line 83
    expected_counts,  \* line 110
    binned_counts,    \* lines 115-121
    bin_labels,       \* lines 116-122, as <<start, end - 1>>
    disk,             \* image files present in data/
    effects,          \* the run's side effects, in order
    report,           \* lines 154-158: the ranking lines printed
    run,              \* which execution of the script this is
    prev              \* what the previous execution produced

vars == <<num_nodes, num_queries, lambda_param, seed, num_samples, pc, error,
          rng, mt, exp_values, scaled_values, node_counts, probabilities,
          figures, max_prob_node, max_prob, cum_prob_10, cum_prob_50,
          cum_prob_100, expected_counts, binned_counts, bin_labels, disk,
          effects, report, run, prev>>

config == <<num_nodes, num_queries, lambda_param, seed, num_samples>>

-----------------------------------------------------------------------------
(* Bounds of the model *)

MaxSamples == 3
Denom == 2
MaxVariate == 40
MaxReduceNodes == 6

(* Program constants *)

bin_size == 10
TopN == 10
CumA == 10
CumB == 50
CumC == 100

Cuts == {bin_size, 2 * bin_size, CumB, CumC}

\* node counts around every boundary the code treats specially, and two
\* non-positive ones
NodeCounts == {-1, 0, 1} \cup {c + d : c \in Cuts, d \in {-1, 0, 1}}
SampleCounts == -1 .. MaxSamples
Rates == {-1, 0, 1, 2}
QueryCounts == {1, 3}
Seeds == {42}

\* numerators of the standard exponential variates the generator may return:
\* 0.5, 10.5, 50.5 and 100.5 when Denom = 2
Variates == {1} \cup {c * Denom + 1 : c \in {CumA, CumB, CumC}}

Configs ==
    [num_nodes : NodeCounts, num_queries : QueryCounts, lambda_param : Rates,
     seed : Seeds, num_samples : SampleCounts]

-----------------------------------------------------------------------------
(* Helpers *)

Range(s) == {s[i] : i \in 1 .. Len(s)}

Min(a, b) == IF a < b THEN a ELSE b

RECURSIVE SumSeq(_)
SumSeq(s) == IF s = << >> THEN 0 ELSE s[1] + SumSeq(Tail(s))

\* one element too many: s[:k + 1]
Slice_OffByOne(s, k) == SubSeq(s, 1, Min(k + 1, Len(s)))

\* Python's s[:k] for k >= 0: the slice is clamped to the length
Slice(s, k) == SubSeq(s, 1, Min(k, Len(s)))

\* Python's s[a:b] for 0 <= a <= b
Slice2(s, a, b) == SubSeq(s, Min(a, Len(s)) + 1, Min(b, Len(s)))

NoError == [exc |-> "none", at |-> "none"]

PcRank ==
    [start |-> 0, draw |-> 1, reduce |-> 2, tabulate |-> 3, figure1 |-> 4,
     save1 |-> 5, figure2 |-> 6, save2 |-> 7, show |-> 8, report |-> 9,
     done |-> 10]

\* how far the run got: the rank of the step about to execute, or of the
\* step that raised
Progress == IF pc = "aborted" THEN PcRank[error.at] ELSE PcRank[pc]

Completed(step) == Progress > PcRank[step]


-----------------------------------------------------------------------------
(* The random source *)

\* numpy's global generator before np.random.seed: seeded from OS entropy,
\* a different state in every process
Entropy(r) == [kind |-> "entropy", id |-> r, pos |-> 0]

\* the seeding left out: the generator keeps the state it had
SeedRng_Skip(r, s) == r

\* line 34: np.random.seed(seed) replaces the generator's state r
SeedRng(r, s) == [kind |-> "seeded", id |-> s, pos |-> 0]

\* The generator is a deterministic function of its state, the scale and the
\* size.  mt records the values of that function seen so far; a key drawn
\* before returns the same array again.
Drawn(key) == {m[2] : m \in {x \in mt : x[1] = key}}

-----------------------------------------------------------------------------
(* Pure computations *)
\* the truncation alone, without the remainder modulo num_nodes
ScaledValue_NoMod(e, n, d) == e \div d

\* rounding to the nearest integer in place of truncation
ScaledValue_Round(e, n, d) ==
    IF n > 0 THEN ((e % (n * d)) + d \div 2) \div d ELSE 0

\* line 38, one element: (x % num_nodes).astype(int) for the sample x = e / d.
\* numpy's % takes the sign of the divisor; astype(int) truncates toward zero.
ScaledValue(e, n, d) ==
    IF n > 0
    THEN (e % (n * d)) \div d
    ELSE LET m  == (-n) * d
             r0 == e % m
             r  == IF r0 = 0 THEN 0 ELSE r0 - m
         IN  -((-r) \div d)

\* line 38 with num_nodes = 0: x % 0 is NaN, and the cast of NaN to an
\* integer is undefined: builds give the smallest integer or 0.  The smallest
\* integer is represented by -(2^30).
NaNCast == {-(2 ^ 30), 0}

\* line 41: Counter(scaled_values)
Counter(s) ==
    [l \in Range(s) |-> Cardinality({i \in 1 .. Len(s) : s[i] = l})]

\* the comprehension over the labels that occur, the others left out
Probabilities_Omit(nc, n) ==
    LET full == [i \in 1 .. n |-> IF (i - 1) \in DOMAIN nc THEN nc[i - 1] ELSE 0]
    IN  IF n <= 0 THEN << >> ELSE SelectSeq(full, LAMBDA c : c > 0)

\* lines 44-45: [node_counts.get(node, 0) / num_samples for node in nodes]
Probabilities(nc, n) ==
    IF n <= 0 THEN << >>
    ELSE [i \in 1 .. n |-> IF (i - 1) \in DOMAIN nc THEN nc[i - 1] ELSE 0]

MaxOf(S) == CHOOSE m \in S : \A x \in S : x <= m

\* the last index of the maximum in place of the first
ArgMax_Last(p) ==
    LET m == MaxOf(Range(p))
    IN  (CHOOSE i \in 1 .. Len(p) :
            /\ p[i] = m
            /\ \A j \in (i + 1) .. Len(p) : p[j] # m) - 1

\* line 77: np.argmax returns the first index of the maximum
ArgMax(p) ==
    LET m == MaxOf(Range(p))
    IN  (CHOOSE i \in 1 .. Len(p) :
            /\ p[i] = m
            /\ \A j \in 1 .. (i - 1) : p[j] # m) - 1

\* lines 81-83: sum(probabilities[:k])
CumProb(p, k) == SumSeq(Slice(p, k))

\* line 110
ExpectedCounts(p, q) == [i \in 1 .. Len(p) |-> p[i] * q]

\* line 114
NumBins(n) == n \div bin_size

\* lines 118-121
BinnedCounts(ec, n) ==
    [b \in 1 .. NumBins(n) |->
        SumSeq(Slice2(ec, (b - 1) * bin_size, b * bin_size))]

\* lines 119-122
BinLabels(n) ==
    [b \in 1 .. NumBins(n) |-> <<(b - 1) * bin_size, b * bin_size - 1>>]

\* line 154: enumerate(probabilities), as <<node, prob>>
Enumerate(p) == [i \in 1 .. Len(p) |-> <<i - 1, p[i]>>]

\* line 154: sorted(..., key=lambda x: x[1], reverse=True).  Python's sort is
\* stable, also with reverse=True: items with equal keys keep their order.
RECURSIVE SortByKeys(_, _)
SortByKeys(items, keys) ==
    IF keys = {} THEN << >>
    ELSE LET k == MaxOf(keys)
         IN  SelectSeq(items, LAMBDA x : x[2] = k)
                 \o SortByKeys(items, keys \ {k})

\* an ascending sort read backwards (sorted(...)[::-1]): the keys descend,
\* but items with equal keys come out in reverse order
SortedDesc_Reversed(items) ==
    LET asc == [i \in 1 .. Len(items) |-> items[Len(items) + 1 - i]]
    IN  SortByKeys(asc, {x[2] : x \in Range(items)})

SortedDesc(items) == SortByKeys(items, {x[2] : x \in Range(items)})

\* lines 156-158: the lines printed for sorted_probs[:10]
Ranking(p, q) ==
    LET top == Slice(SortedDesc(Enumerate(p)), TopN)
    IN  [i \in 1 .. Len(top) |->
            [node |-> top[i][1], prob |-> top[i][2],
             expected |-> top[i][2] * q]]

-----------------------------------------------------------------------------
(* The run *)

File1 == "exponential_distribution.png"
File2 == "expected_query_counts.png"

NoPrev ==
    [config |-> << >>, pc |-> "none", progress |-> -1,
     probabilities |-> << >>, report |-> << >>]

InitOver(cfgs) ==
    /\ \E c \in cfgs :
          /\ num_nodes = c.num_nodes
          /\ num_queries = c.num_queries
          /\ lambda_param = c.lambda_param
          /\ seed = c.seed
          /\ num_samples = c.num_samples
    /\ pc = "start"
    /\ error = NoError
    /\ rng = Entropy(1)
    /\ mt = {}
    /\ exp_values = << >>
    /\ scaled_values = << >>
    /\ node_counts = << >>
    /\ probabilities = << >>
    /\ figures = 0
    /\ max_prob_node = -1
    /\ max_prob = -1
    /\ cum_prob_10 = -1
    /\ cum_prob_50 = -1
    /\ cum_prob_100 = -1
    /\ expected_counts = << >>
    /\ binned_counts = << >>
    /\ bin_labels = << >>
    /\ disk = {}
    /\ effects = << >>
    /\ report = << >>
    /\ run = 1
    /\ prev = NoPrev

Init == InitOver(Configs)

\* an uncaught exception ends the process
Raise(exc) ==
    /\ error' = [exc |-> exc, at |-> pc]
    /\ pc' = "aborted"

\* lines 144-145 and 34: the banner, the call, np.random.seed(seed)
Start ==
    /\ pc = "start"
    /\ effects' = Append(effects, "banner")
    /\ rng' = SeedRng(rng, seed)
    /\ pc' = "draw"
    /\ UNCHANGED <<config, error, mt, exp_values, scaled_values, node_counts,
                   probabilities, figures, max_prob_node, max_prob,
                   cum_prob_10, cum_prob_50, cum_prob_100, expected_counts,
                   binned_counts, bin_labels, disk, report, run, prev>>

\* line 37: np.random.exponential(scale=1 / lambda_param, size=num_samples)
Draw ==
    /\ pc = "draw"
    /\ \/ /\ lambda_param = 0
          /\ Raise("ZeroDivisionError")
          /\ UNCHANGED <<rng, mt, exp_values>>
       \/ /\ lambda_param # 0
          /\ lambda_param < 0 \/ num_samples < 0
          /\ Raise("ValueError")
          /\ UNCHANGED <<rng, mt, exp_values>>
       \/ /\ lambda_param > 0
          /\ num_samples >= 0
          /\ LET key == <<rng, lambda_param, num_samples>>
             IN  \E s \in [1 .. num_samples -> Variates] :
                    /\ Drawn(key) \subseteq {s}
                    /\ exp_values' = s
                    /\ mt' = mt \cup {<<key, s>>}
          /\ rng' = [rng EXCEPT !.pos = @ + num_samples]
          /\ pc' = "reduce"
          /\ UNCHANGED error
    /\ UNCHANGED <<config, scaled_values, node_counts, probabilities, figures,
                   max_prob_node, max_prob, cum_prob_10, cum_prob_50,
                   cum_prob_100, expected_counts, binned_counts, bin_labels,
                   disk, effects, report, run, prev>>

\* line 38: scaled_values = (exp_values % num_nodes).astype(int)
Reduce ==
    /\ pc = "reduce"
    /\ \/ /\ num_nodes # 0
          /\ scaled_values' =
                [i \in 1 .. Len(exp_values) |->
                    ScaledValue(exp_values[i], num_nodes,
                                Denom * lambda_param)]
       \/ /\ num_nodes = 0
          /\ \E v \in NaNCast :
                scaled_values' = [i \in 1 .. Len(exp_values) |-> v]
    /\ pc' = "tabulate"
    /\ UNCHANGED <<config, error, rng, mt, exp_values, node_counts,
                   probabilities, figures, max_prob_node, max_prob,
                   cum_prob_10, cum_prob_50, cum_prob_100, expected_counts,
                   binned_counts, bin_labels, disk, effects, report, run,
                   prev>>

\* lines 41-45: the Counter, nodes, and the probability of each node.  With
\* num_samples = 0 the first division raises.
Tabulate ==
    /\ pc = "tabulate"
    /\ node_counts' = Counter(scaled_values)
    /\ \/ /\ num_nodes >= 1
          /\ num_samples = 0
          /\ Raise("ZeroDivisionError")
          /\ UNCHANGED probabilities
       \/ /\ num_nodes < 1 \/ num_samples # 0
          /\ probabilities' = Probabilities(node_counts', num_nodes)
          /\ pc' = "figure1"
          /\ UNCHANGED error
    /\ UNCHANGED <<config, rng, mt, exp_values, scaled_values, figures,
                   max_prob_node, max_prob, cum_prob_10, cum_prob_50,
                   cum_prob_100, expected_counts, binned_counts, bin_labels,
                   disk, effects, report, run, prev>>

\* lines 48-99: the first figure, its three panels and the statistics box.
\* np.argmax of an empty list raises, after plt.subplots made the figure.
Figure1 ==
    /\ pc = "figure1"
    /\ figures' = figures + 1
    /\ \/ /\ probabilities = << >>
          /\ Raise("ValueError")
          /\ UNCHANGED <<max_prob_node, max_prob, cum_prob_10, cum_prob_50,
                         cum_prob_100>>
       \/ /\ probabilities # << >>
          /\ max_prob_node' = ArgMax(probabilities)
          /\ max_prob' = probabilities[max_prob_node' + 1]
          /\ cum_prob_10' = CumProb(probabilities, CumA)
          /\ cum_prob_50' = CumProb(probabilities, CumB)
          /\ cum_prob_100' = CumProb(probabilities, CumC)
          /\ pc' = "save1"
          /\ UNCHANGED error
    /\ UNCHANGED <<config, rng, mt, exp_values, scaled_values, node_counts,
                   probabilities, expected_counts, binned_counts, bin_labels,
                   disk, effects, report, run, prev>>

\* lines 102-104: plt.savefig(output_path) and the message; a filesystem
\* failure raises out of savefig
SaveFig1 ==
    /\ pc = "save1"
    /\ \/ /\ disk' = disk \cup {File1}
          /\ effects' = effects \o <<"savefig1", "print_saved1">>
          /\ pc' = "figure2"
          /\ UNCHANGED error
       \/ /\ Raise("OSError")
          /\ UNCHANGED <<disk, effects>>
    /\ UNCHANGED <<config, rng, mt, exp_values, scaled_values, node_counts,
                   probabilities, figures, max_prob_node, max_prob,
                   cum_prob_10, cum_prob_50, cum_prob_100, expected_counts,
                   binned_counts, bin_labels, report, run, prev>>

\* lines 107-132: the second figure, the expected counts and their bins
Figure2 ==
    /\ pc = "figure2"
    /\ figures' = figures + 1
    /\ expected_counts' = ExpectedCounts(probabilities, num_queries)
    /\ binned_counts' = BinnedCounts(expected_counts', num_nodes)
    /\ bin_labels' = BinLabels(num_nodes)
    /\ pc' = "save2"
    /\ UNCHANGED <<config, error, rng, mt, exp_values, scaled_values,
                   node_counts, probabilities, max_prob_node, max_prob,
                   cum_prob_10, cum_prob_50, cum_prob_100, disk, effects,
                   report, run, prev>>

\* the failure of the second write swallowed: the run goes on
SaveFig2_Swallow ==
    /\ pc = "save2"
    /\ \/ /\ disk' = disk \cup {File2}
          /\ effects' = effects \o <<"savefig2", "print_saved2">>
       \/ UNCHANGED <<disk, effects>>
    /\ pc' = "show"
    /\ UNCHANGED <<config, error, rng, mt, exp_values, scaled_values,
                   node_counts, probabilities, figures, max_prob_node,
                   max_prob, cum_prob_10, cum_prob_50, cum_prob_100,
                   expected_counts, binned_counts, bin_labels, report, run,
                   prev>>

\* lines 134-136
SaveFig2 ==
    /\ pc = "save2"
    /\ \/ /\ disk' = disk \cup {File2}
          /\ effects' = effects \o <<"savefig2", "print_saved2">>
          /\ pc' = "show"
          /\ UNCHANGED error
       \/ /\ Raise("OSError")
          /\ UNCHANGED <<disk, effects>>
    /\ UNCHANGED <<config, rng, mt, exp_values, scaled_values, node_counts,
                   probabilities, figures, max_prob_node, max_prob,
                   cum_prob_10, cum_prob_50, cum_prob_100, expected_counts,
                   binned_counts, bin_labels, report, run, prev>>

\* lines 138-140: plt.show() and the return to __main__
Show ==
    /\ pc = "show"
    /\ effects' = Append(effects, "show")
    /\ pc' = "report"
    /\ UNCHANGED <<config, error, rng, mt, exp_values, scaled_values,
                   node_counts, probabilities, figures, max_prob_node,
                   max_prob, cum_prob_10, cum_prob_50, cum_prob_100,
                   expected_counts, binned_counts, bin_labels, disk, report,
                   run, prev>>

\* lines 148-158: the key statistics and the top-10 ranking
Report ==
    /\ pc = "report"
    /\ report' = Ranking(probabilities, num_queries)
    /\ effects' = effects \o <<"print_stats", "report">>
    /\ pc' = "done"
    /\ UNCHANGED <<config, error, rng, mt, exp_values, scaled_values,
                   node_counts, probabilities, figures, max_prob_node,
                   max_prob, cum_prob_10, cum_prob_50, cum_prob_100,
                   expected_counts, binned_counts, bin_labels, disk, run,
                   prev>>

Next ==
    \/ Start
    \/ Draw
    \/ Reduce
    \/ Tabulate
    \/ Figure1
    \/ SaveFig1
    \/ Figure2
    \/ SaveFig2
    \/ Show
    \/ Report

Spec == Init /\ [][Next]_vars

-----------------------------------------------------------------------------
(* Running the script a second time *)

\* the configurations of the two executions: two seeds, two sample counts,
\* and one configuration for each way the run can be invalid
DetConfigs ==
    [num_nodes : {TopN + 1}, num_queries : {1}, lambda_param : {1},
     seed : {41, 42}, num_samples : {1, 2}]
    \cup
    {[num_nodes |-> n, num_queries |-> 1, lambda_param |-> l, seed |-> 42,
      num_samples |-> k] :
        <<n, l, k>> \in {<<0, 1, 1>>, <<1, 0, 1>>, <<1, -1, 1>>, <<1, 1, 0>>}}

InitDet == InitOver(DetConfigs)

\* A new process runs the script again: the generator starts from fresh
\* entropy, nothing of the first process is kept but the files on disk.  What
\* the first run produced is remembered in prev for comparison.
Rerun ==
    /\ pc \in {"done", "aborted"}
    /\ run = 1
    /\ prev' = [config |-> config, pc |-> pc, progress |-> Progress,
                probabilities |-> probabilities, report |-> report]
    /\ run' = 2
    /\ \E c \in DetConfigs :
          /\ num_nodes' = c.num_nodes
          /\ num_queries' = c.num_queries
          /\ lambda_param' = c.lambda_param
          /\ seed' = c.seed
          /\ num_samples' = c.num_samples
    /\ pc' = "start"
    /\ error' = NoError
    /\ rng' = Entropy(2)
    /\ exp_values' = << >>
    /\ scaled_values' = << >>
    /\ node_counts' = << >>
    /\ probabilities' = << >>
    /\ figures' = 0
    /\ max_prob_node' = -1
    /\ max_prob' = -1
    /\ cum_prob_10' = -1
    /\ cum_prob_50' = -1
    /\ cum_prob_100' = -1
    /\ expected_counts' = << >>
    /\ binned_counts' = << >>
    /\ bin_labels' = << >>
    /\ effects' = << >>
    /\ report' = << >>
    /\ UNCHANGED <<mt, disk>>

NextDet == Next \/ Rerun

SpecDet == InitDet /\ [][NextDet]_vars

-----------------------------------------------------------------------------
(* The label reduction on its own: the state before line 38, for one sample  *)
(* of any value up to MaxVariate / Denom and any node count.                 *)

InitReduce ==
    /\ num_nodes \in (-2) .. MaxReduceNodes
    /\ num_queries = 1
    /\ lambda_param \in {1, 2}
    /\ seed = 42
    /\ num_samples = 1
    /\ pc = "reduce"
    /\ error = NoError
    /\ rng = [SeedRng(Entropy(1), seed) EXCEPT !.pos = 1]
    /\ \E e \in 0 .. MaxVariate :
          /\ exp_values = <<e>>
          /\ mt = {<<<<SeedRng(Entropy(1), seed), lambda_param, 1>>, <<e>>>>}
    /\ scaled_values = << >>
    /\ node_counts = << >>
    /\ probabilities = << >>
    /\ figures = 0
    /\ max_prob_node = -1
    /\ max_prob = -1
    /\ cum_prob_10 = -1
    /\ cum_prob_50 = -1
    /\ cum_prob_100 = -1
    /\ expected_counts = << >>
    /\ binned_counts = << >>
    /\ bin_labels = << >>
    /\ disk = {}
    /\ effects = <<"banner">>
    /\ report = << >>
    /\ run = 1
    /\ prev = NoPrev

SpecReduce == InitReduce /\ [][Reduce]_vars

-----------------------------------------------------------------------------
(* Properties *)

\* a configuration the specification calls valid
Valid == num_nodes >= 1 /\ num_samples >= 1 /\ lambda_param > 0

Nodes == 0 .. (num_nodes - 1)

\* the sum of p over the node ids 0 .. k-1, by induction on k
RECURSIVE SumNodes(_, _)
SumNodes(p, k) == IF k <= 0 THEN 0 ELSE SumNodes(p, k - 1) + p[k]

\* C1: for a valid configuration the probability vector has exactly
\* num_nodes entries, one for each node id 0..num_nodes-1, every entry is
\* >= 0, and a node id no sample maps to is present with probability 0.
C1_VectorShape ==
    (Valid /\ Completed("tabulate")) =>
        LET hit == Range(scaled_values)
        IN  /\ DOMAIN probabilities = 1 .. num_nodes
            /\ \A n \in Nodes :
                  /\ probabilities[n + 1] >= 0
                  /\ n \notin hit => probabilities[n + 1] = 0

\* C1 witness: a tabulated run over several nodes where one node was hit and
\* another was not
C1_Witness ==
    /\ Valid
    /\ Completed("tabulate")
    /\ num_nodes > 1
    /\ \E n \in Nodes : n \notin Range(scaled_values)
    /\ \E n \in Nodes : n \in Range(scaled_values) /\ n > 0

\* C2: for a valid configuration the counts tabulated for node ids
\* 0..num_nodes-1 add up to exactly num_samples (the probabilities sum to
\* 1): every sample has a label in [0, num_nodes) and none is lost.
C2_SumsToOne ==
    (Valid /\ Completed("tabulate")) =>
        /\ SumNodes(probabilities, num_nodes) = num_samples
        /\ \A i \in 1 .. Len(scaled_values) : scaled_values[i] \in Nodes
        /\ Len(scaled_values) = num_samples

\* C2 witness: a tabulated run in which a sample was at least num_nodes and
\* so wrapped around
C2_Witness ==
    /\ Valid
    /\ Completed("tabulate")
    /\ num_nodes > 1
    /\ \E i \in 1 .. Len(exp_values) :
          exp_values[i] \div (Denom * lambda_param) >= num_nodes

\* C3: with num_nodes <= 0, num_samples <= 0 or lambda_param <= 0 the run
\* fails before any sample is drawn, any figure is created or any file is
\* written; it never gets past the call that draws the samples.
C3_FailFast ==
    ~Valid =>
        /\ exp_values = << >>
        /\ figures = 0
        /\ disk = {}
        /\ Progress <= PcRank["draw"]

\* C4: for every num_nodes >= 1 the bins of width 10 partition the node
\* range: every node id lies in exactly one bin, and the binned expected
\* counts add up to the sum of the expected counts over all nodes.
C4_BinsPartition ==
    (Valid /\ Completed("figure2")) =>
        /\ \A n \in Nodes :
              Cardinality({b \in 1 .. Len(bin_labels) :
                              bin_labels[b][1] <= n /\ n <= bin_labels[b][2]})
                  = 1
        /\ SumSeq(binned_counts) = SumNodes(expected_counts, num_nodes)

\* the ranking printed is in descending order of probability, equal
\* probabilities in ascending node id, and every line carries its node's
\* probability and that probability times num_queries
RankingOrdered ==
    /\ \A i \in 1 .. Len(report) :
          /\ report[i].node \in Nodes
          /\ report[i].prob = probabilities[report[i].node + 1]
          /\ report[i].expected = report[i].prob * num_queries
    /\ \A i, j \in 1 .. Len(report) :
          i < j =>
              \/ report[i].prob > report[j].prob
              \/ /\ report[i].prob = report[j].prob
                 /\ report[i].node < report[j].node

\* C5 as stated: for every valid configuration the ranking has exactly 10
\* entries, in descending order of probability, ties in ascending node id,
\* each with expected queries = probability * num_queries.
C5_ExactlyTen ==
    (Valid /\ pc = "done") =>
        /\ Len(report) = TopN
        /\ RankingOrdered

\* C5 amended: for every valid configuration the ranking has exactly
\* min(10, num_nodes) entries, in descending order of probability, ties in
\* ascending node id, each with expected queries = probability * num_queries.
C5_TopRanking ==
    (Valid /\ pc = "done") =>
        /\ Len(report) = Min(TopN, num_nodes)
        /\ RankingOrdered

\* C5 witness: a finished run over more than 10 nodes whose ranking puts a
\* node beyond the first ten ids first, a less likely node of lower id
\* second, and tied nodes after them
C5_Witness ==
    /\ Valid
    /\ pc = "done"
    /\ num_nodes > TopN
    /\ Len(report) = TopN
    /\ report[1].node >= TopN
    /\ report[1].node > report[2].node
    /\ report[1].prob > report[2].prob
    /\ report[2].prob > report[3].prob
    /\ report[3].prob = report[4].prob
    /\ num_queries > 1

\* C9: the most likely node of the statistics box is the lowest node id
\* whose probability is the maximum, and it is the node, with the same
\* probability, of the first line of the ranking.
C9_MostLikely ==
    /\ (Valid /\ Completed("figure1")) =>
          /\ max_prob_node \in Nodes
          /\ max_prob = probabilities[max_prob_node + 1]
          /\ \A n \in Nodes :
                /\ probabilities[n + 1] <= max_prob
                /\ probabilities[n + 1] = max_prob => max_prob_node <= n
    /\ (Valid /\ pc = "done") =>
          /\ report[1].node = max_prob_node
          /\ report[1].prob = max_prob

\* C9 witness: a finished run in which two nodes tie for the maximum
C9_Witness ==
    /\ Valid
    /\ pc = "done"
    /\ \E m, n \in Nodes :
          /\ m < n
          /\ probabilities[m + 1] = max_prob
          /\ probabilities[n + 1] = max_prob
          /\ m > 0

\* C10: for k in {10, 50, 100} the cumulative mass reported is the sum of
\* the probabilities of node ids 0..min(k, num_nodes)-1; so cum_10 <= cum_50
\* <= cum_100 <= total mass, and with num_nodes <= k it is the total mass.
C10_Cumulative ==
    (Valid /\ Completed("figure1")) =>
        LET total == SumNodes(probabilities, num_nodes)
            upto(k) == SumNodes(probabilities, Min(k, num_nodes))
        IN  /\ cum_prob_10 = upto(CumA)
            /\ cum_prob_50 = upto(CumB)
            /\ cum_prob_100 = upto(CumC)
            /\ cum_prob_10 <= cum_prob_50
            /\ cum_prob_50 <= cum_prob_100
            /\ cum_prob_100 <= total
            /\ num_nodes <= CumA => cum_prob_10 = total
            /\ num_nodes <= CumB => cum_prob_50 = total
            /\ num_nodes <= CumC => cum_prob_100 = total

\* C10 witness: more than 100 nodes, with mass between nodes 10 and 49,
\* between nodes 50 and 99, and beyond node 99
C10_Witness ==
    /\ Valid
    /\ Completed("figure1")
    /\ num_nodes > CumC
    /\ cum_prob_10 < cum_prob_50
    /\ cum_prob_50 < cum_prob_100
    /\ cum_prob_100 < num_samples

\* the four effects the specification orders, as they happened
Major ==
    SelectSeq(effects,
              LAMBDA x : x \in {"savefig1", "savefig2", "show", "report"})

IsPrefix(a, b) == Len(a) <= Len(b) /\ a = SubSeq(b, 1, Len(a))

\* C8: the effects happen in the order write of the first image, write of
\* the second image, display, ranking report.  A failed write ends the run:
\* nothing more happens and nothing is retried; when the second write fails
\* the first image stays on disk; the report is printed only when both
\* images were written.
C8_EffectOrder ==
    /\ IsPrefix(Major, <<"savefig1", "savefig2", "show", "report">>)
    /\ File1 \in disk <=> "savefig1" \in Range(effects)
    /\ File2 \in disk <=> "savefig2" \in Range(effects)
    /\ "report" \in Range(effects) => {File1, File2} \subseteq disk
    /\ error # NoError => pc = "aborted" /\ ~ENABLED Next
    /\ error.at = "save1" => Major = << >> /\ disk = {}
    /\ error.at = "save2" => Major = <<"savefig1">> /\ disk = {File1}

\* C8 witness: the second write failed after the first succeeded
C8_Witness ==
    /\ pc = "aborted"
    /\ error = [exc |-> "OSError", at |-> "save2"]
    /\ File1 \in disk

\* C6: a sample x >= 0 gets the label floor(x) mod num_nodes, which lies in
\* [0, num_nodes): the remainder taken first and the truncation second give
\* what truncating first and taking the remainder second gives.
C6_LabelIsFloorMod ==
    (num_nodes >= 1 /\ Completed("reduce")) =>
        \A i \in 1 .. Len(exp_values) :
            /\ scaled_values[i]
                  = (exp_values[i] \div (Denom * lambda_param)) % num_nodes
            /\ scaled_values[i] \in Nodes

\* C6 witness: a sample with a fractional part, at least num_nodes, reduced
\* over several nodes
C6_Witness ==
    /\ Completed("reduce")
    /\ num_nodes > 1
    /\ \E i \in 1 .. Len(exp_values) :
          /\ exp_values[i] % (Denom * lambda_param) # 0
          /\ exp_values[i] \div (Denom * lambda_param) > num_nodes
          /\ scaled_values[i] > 0

SameInputs ==
    /\ prev.config[1] = num_nodes
    /\ prev.config[3] = lambda_param
    /\ prev.config[4] = seed
    /\ prev.config[5] = num_samples

\* C7: two runs with the same seed, num_nodes, lambda_param and num_samples
\* give the same probability vector and the same ranking; the generator is
\* seeded once, on entry, and every draw is the first draw of a generator
\* seeded with the configured seed.
C7_Deterministic ==
    /\ Completed("start") => rng.kind = "seeded" /\ rng.id = seed
    /\ \A m \in mt : m[1][1].kind = "seeded" /\ m[1][1].pos = 0
    /\ (run = 2 /\ SameInputs) =>
          /\ (Completed("tabulate") /\ prev.progress > PcRank["tabulate"])
                => probabilities = prev.probabilities
          /\ (pc = "done" /\ prev.pc = "done") => report = prev.report

\* C7 witness: both runs finished, with the same inputs and two samples
C7_Witness ==
    /\ run = 2
    /\ SameInputs
    /\ pc = "done"
    /\ prev.pc = "done"
    /\ num_samples = 2
    /\ Len(report) = TopN

=============================================================================
